---- MODULE Spec2Model ----
(***************************************************************************)
(* Job lifecycle, idempotent itinerary persistence and the runtime entry  *)
(* point of the AgentCore travel planner, as a state machine over the     *)
(* DynamoDB table the handlers share.                                      *)
(*                                                                         *)
(* Every handler is split where the code touches the table: a Call step   *)
(* evaluates the handler's local code (argument shaping, clock reads) and *)
(* a second step performs the single table operation and returns. Two     *)
(* workers therefore can both be in flight between the two steps, which   *)
(* is the only interleaving the handlers admit: each makes one atomic     *)
(* table request.                                                          *)
(*                                                                         *)
(* The credential cache and the tool proxy layer are split the same way,  *)
(* at the requests to the token endpoint and to the gateway: a worker     *)
(* waits in a frame for the reply and resumes its caller with it; the     *)
(* cache's token and expiry are two writes, so a mint is two steps.       *)
(*                                                                         *)
(* The polling client is one more process: it submits, reads the          *)
(* acknowledgement, then reads the job and sleeps in turn.                 *)
(***************************************************************************)
EXTENDS Integers, Sequences, FiniteSets, TLC

Digits == <<"0", "1", "2", "3", "4", "5", "6", "7", "8", "9">>

\* ---------------------------------------------------------------- bounds
\* Calls started in one behaviour.
MaxCalls == 3

\* The wall clock, in seconds, stops here.
MaxEpoch == 806

\* ---------------------------------------------------------------- constants
SafetyMargin == 30
DefaultExpiresIn == 300
LineCap == 600
FinalMessageCap == 180000
TraceCap == 3800
JOB_SK_PREFIX == "job#"

\* ---------------------------------------------------------------- inputs
Workers == {"w1", "w2"}
\* The times the wall clock shows, in ticks.
Ticks == {0, 1}
Owners == {"u1", "u2"}
RequestIds == {"r1"}
\* create_job(meta, job_id): None and {} are falsy alike, "" stands for None.
NoMeta == <<>>
CreateArgs == {<<NoMeta, "">>, <<[source |-> "ui"], "rt-1">>}
\* append_progress(line)
Lines == {"  ", " STATUS: a ", "TOOL: b"}
\* n copies of s
RECURSIVE Repeat(_, _)
Repeat(s, n) ==
    IF n = 0 THEN ""
    ELSE LET half == Repeat(s, n \div 2)
         IN  IF n % 2 = 0 THEN half \o half ELSE half \o half \o s
\* append_progress(line), around the cap: lines of 600 and of 601 characters,
\* one of 601 between spaces, one that is 600 long once stripped, blank ones
\* ("" is also None: line or "").
CapLines ==
    {"", " \t ", "STATUS: ok", Repeat("x", 600), Repeat("x", 601),
     "  " \o Repeat("y", 601) \o " ", " " \o Repeat("z", 600) \o "\n"}
\* complete_job(status, final_message, itinerary_id), around the cap of the
\* final message: one character over it, with and without a result id, and
\* calls that give no message or no id.
CapCompleteArgs ==
    {<<"SUCCEEDED", Repeat("m", FinalMessageCap + 1), "i1">>,
     <<"FAILED", "", "">>, <<"FAILED", "m2", "">>, <<"SUCCEEDED", "", "i2">>}
\* The formatted log records a JobProgressHandler is handed: lines of the
\* prompt's protocol, the tool banner of the agent framework, other log lines.
LogLines ==
    {"STATUS: researching buses", "TOOL: http_request GET", "TOOL_RESULT: ok 2345 chars",
     "Tool #1: http_request", "[invoke] userId=u1", " STATUS: indented", "status: lower", ""}
\* complete_job(status, final_message, itinerary_id): "" stands for None. The
\* status is any string the caller passes.
CompleteArgs ==
    {<<"SUCCEEDED", "m1", "i1">>, <<"FAILED", "m2", "">>,
     <<"FAILED", "", "i2">>, <<"CANCELLED", "", "">>}
\* The line and the completions of the driver of a polled job.
DriverLines == {"STATUS: a"}
DriverCompleteArgs == {<<"SUCCEEDED", "m1", "i1">>, <<"FAILED", "", "">>}
\* save_itinerary(userId, itinerary, requestId): candidate records with and without
\* an itineraryId of the client's ("" is a falsy one), alike and different in
\* contents, under the same and under different request ids.
Trip(dest) == [destination |-> dest, startDate |-> "2025-12-14", endDate |-> "2025-12-16"]
SaveArgs ==
    {<<"u1", Trip("Kyoto"), "r1">>,
     <<"u1", Trip("Kyoto"), "">>,
     <<"u1", [itineraryId |-> ""] @@ Trip("Kyoto"), "r1">>,
     <<"u1", [itineraryId |-> ""] @@ Trip("Kyoto"), "">>,
     <<"u2", [itineraryId |-> ""] @@ Trip("Kyoto"), "r1">>,
     <<"u1", [itineraryId |-> "i1"] @@ Trip("Kyoto"), "r1">>,
     <<"u1", [itineraryId |-> "i1"] @@ Trip("Oslo"), "r1">>,
     <<"u1", [itineraryId |-> "job#r1"] @@ Trip("Oslo"), "r1">>}
\* The save_itinerary calls made on a failing table: a new record and one under
\* a record's id.
FaultSaveArgs ==
    {a \in SaveArgs : "itineraryId" \in DOMAIN a[2] /\ a[2].itineraryId = "i1"}
\* invoke(payload): submissions with and without a request id of the client's.
Payloads ==
    {[action |-> "start", userId |-> "u1", requestId |-> "r1", destination |-> "Kyoto"],
     [action |-> "start", userId |-> "u1", destination |-> "Kyoto"]}

\* How long the wall clock advances between two steps, in seconds: a second
\* less than a token of 300 s is cached, and as long as it is.
Waits == {269, 270}
\* The process's configuration, config.py lines 21-25: a static token ("" when
\* unset), whether the Cognito URL, client id and secret are all set, whether
\* the MCP client libraries import, whether GATEWAY_URL is set.
DefaultEnv == [static |-> "", cognito |-> TRUE, libs |-> TRUE, url |-> TRUE]
Envs ==
    {DefaultEnv,
     [DefaultEnv EXCEPT !.static = "static-token"],
     [DefaultEnv EXCEPT !.cognito = FALSE]}
\* GATEWAY_URL set to the empty string: no gateway.
NoGatewayEnv == [DefaultEnv EXCEPT !.url = FALSE]
GatewayEnvs == Envs \cup {NoGatewayEnv, [DefaultEnv EXCEPT !.libs = FALSE]}
\* The descriptors list_tools_sync returns: with a tool_name that is a string
\* or without one, with a tool_spec that wraps ("ok") or whose wrapping raises
\* ("bad").
Flights == [tool_name |-> "flights", spec |-> "ok"]
Hotels == [tool_name |-> "hotels", spec |-> "ok"]
Unnamed == [spec |-> "ok"]
Broken == [tool_name |-> "weather", spec |-> "bad"]
\* What a list_tools_sync call can end in: an exception, or a list (None is
\* like the empty one).
ListReplies ==
    {[kind |-> "fail"]}
    \cup {[kind |-> "ok", tools |-> l] :
            l \in {<<>>, <<Flights, Broken, Unnamed, Hotels>>}}
\* A wait longer than a token is cached.
LongWaits == {271}
\* What a call_tool_sync call can end in: an exception, or the tool's result.
ToolReplies == {[kind |-> "fail"], [kind |-> "ok", result |-> "result-1"]}
\* What the n-th request to the token endpoint can end in: a transport error,
\* an error status, a success status with a body that is not JSON, or a JSON
\* body with or without access_token and expires_in.
TokenReplies(n) ==
    LET tok == "tok-" \o Digits[n + 1]
    IN  {[kind |-> "transport"], [kind |-> "http_error"], [kind |-> "bad_body"],
         [kind |-> "ok", payload |-> [access_token |-> tok, expires_in |-> 300]],
         [kind |-> "ok", payload |-> [access_token |-> tok]],
         [kind |-> "ok", payload |-> [access_token |-> tok, expires_in |-> 301]],
         [kind |-> "ok", payload |-> [expires_in |-> 300]]}

\* The replies of the token endpoint that the gateway's callers meet.
GatewayTokenReplies(n) ==
    {r \in TokenReplies(n) :
        r.kind \in {"transport", "bad_body"} \/ (r.kind = "ok" /\ DOMAIN r.payload = {"access_token"})}

VARIABLES
    store,      \* the table: (userId, itineraryId) -> item, defined on the stored keys
    now,        \* wall clock, in ticks: the latest time any handler has read
    frame,      \* per worker: the call in flight, with its evaluated locals
    ret,        \* per worker: what its last save_itinerary or get_gateway_access_token call returned
    ncalls,     \* calls started so far
    nuuid,      \* uuid4 values drawn so far
    createRet,  \* history: per (userId, requestId), create_job calls that returned / raised
    touched,    \* history: <<key, handler>> for every table request made
    sent,       \* history: per worker, <<key, entry>> of its applied append requests, in call order
    origin,     \* history: per job key, the worker of each append request the table applied
    saves,      \* history: the save_itinerary calls that have ended, each with its item and result
    runs,       \* history: the agent runs started, <<userId, requestId, call number>>
    acks,       \* history: the responses invoke has returned
    failed,     \* history: the table requests that failed, each with what its call then did
    epoch,      \* int(time.time()): the wall clock in seconds
    cache,      \* config._token_cache
    env,        \* the process's configuration: static token, Cognito settings, MCP libraries, gateway URL
    posts,      \* history: requests sent to the token endpoint so far
    lastMint,   \* history: the latest mint that wrote the cache's expiry: when, its expires_in, its token
    served,     \* history: the get_gateway_access_token calls that found a token cached, each with what it did
    mints,      \* history: the mints that have ended, each with the cache before and after its last write
    done,       \* history: the discover_gateway_tools calls and proxy invocations that have ended, and the invoke calls that raised
    ui,         \* the Streamlit client: its position in main() and its locals
    replies,    \* history: the responses invoke has returned, each with the payload of its call
    retried,    \* history: the records create_job calls found stored under their key
    stamps      \* history: the expiry each mint computed for the token of its own reply

\* The credential cache and what surrounds it.
gwVars == <<epoch, cache, env, posts, lastMint, served, mints, done>>

\* The client and the histories of the later sections.
auxVars == <<ui, replies, retried, stamps>>

vars ==
    <<store, now, frame, ret, ncalls, nuuid, createRet, touched, sent, origin, saves, runs, acks,
      failed, gwVars, auxVars>>

\* ---------------------------------------------------------------- clock
\* datetime.utcnow().isoformat() of the tick t
iso_now(t) == "2025-01-01T00:00:0" \o Digits[t + 1]

\* time.strftime('%H:%M:%S') of the tick t
strftime(t) == "00:00:0" \o Digits[t + 1]

\* str(n)
NumStr(n) == IF n < 10 THEN Digits[n + 1] ELSE Digits[(n \div 10) + 1] \o Digits[(n % 10) + 1]

\* What a read of the clock can return: the latest time read so far or a later
\* one (the clock has ticked meanwhile).
ClockReads(t0) == {t \in Ticks : t0 <= t /\ t <= t0 + 1}

\* ---------------------------------------------------------------- strings
IsSpace(c) == c \in {" ", "\t", "\n"}

RECURSIVE LStrip(_)
LStrip(s) == IF Len(s) > 0 /\ IsSpace(Head(s)) THEN LStrip(Tail(s)) ELSE s

RECURSIVE RStrip(_)
RStrip(s) ==
    IF Len(s) > 0 /\ IsSpace(SubSeq(s, Len(s), Len(s)))
    THEN RStrip(SubSeq(s, 1, Len(s) - 1))
    ELSE s

\* str.strip()
Strip(s) == RStrip(LStrip(s))

\* s[:n]
Prefix(s, n) == IF Len(s) > n THEN SubSeq(s, 1, n) ELSE s

\* ---------------------------------------------------------------- table
Key(userId, sk) == <<userId, sk>>

\* An item's primary key.
ItemKey(item) == Key(item.userId, item.itineraryId)

\* ConditionExpression attribute_not_exists(attr), evaluated on the item stored
\* under the key (no item: the attribute does not exist).
AttributeNotExists(tbl, k, attr) == k \notin DOMAIN tbl \/ attr \notin DOMAIN tbl[k]

\* The table after put_item(Item=item): the item replaces whatever is stored.
PutItem(tbl, item) ==
    [k \in DOMAIN tbl \cup {ItemKey(item)} |->
        IF k = ItemKey(item) THEN item ELSE tbl[k]]

\* The item update_item starts from: the stored one, or (no item stored) a new
\* item holding the key attributes only.
ItemOrNew(tbl, k) ==
    IF k \in DOMAIN tbl THEN tbl[k] ELSE [userId |-> k[1], itineraryId |-> k[2]]

\* The table after update_item(Key=k, "SET a = v, ...") with sets: attribute -> value.
UpdateItemSet(tbl, k, sets) ==
    [j \in DOMAIN tbl \cup {k} |->
        IF j = k THEN sets @@ ItemOrNew(tbl, k) ELSE tbl[j]]

\* if_not_exists(attr, dflt) on an item.
IfNotExists(item, attr, dflt) == IF attr \in DOMAIN item THEN item[attr] ELSE dflt

\* ---------------------------------------------------------------- jobs.py
_job_sk(request_id) == JOB_SK_PREFIX \o request_id

JobKey(userId, requestId) == Key(userId, _job_sk(requestId))

Pairs == Owners \X RequestIds

JobKeys == {JobKey(p[1], p[2]) : p \in Pairs}

Idle == [op |-> "idle"]

CanCall(w) == frame[w].op = "idle" /\ ncalls < MaxCalls

Touch(k, op) == touched \cup {<<k, op>>}

\* The failed requests after one more request: a request the table fails (fault)
\* is recorded with the handler that made it, what the handler's call then did
\* and whether the table changed.
Failed(fault, op, result, wrote) ==
    IF fault THEN failed \cup {[op |-> op, result |-> result, wrote |-> wrote]} ELSE failed

\* create_job's item, lines 18-30. startedAt and updatedAt are two reads of the clock.
create_job_item(user_id, request_id, meta, job_id, t1, t2) ==
    (IF job_id # "" THEN [runtimeJobId |-> job_id] ELSE <<>>)
    @@ (IF meta # NoMeta THEN [meta |-> meta] ELSE <<>>)
    @@ [userId |-> user_id,
        itineraryId |-> _job_sk(request_id),
        type |-> "job",
        status |-> "RUNNING",
        startedAt |-> iso_now(t1),
        updatedAt |-> iso_now(t2),
        progress |-> <<>>]

\* create_job, lines 18-30: build the item.
CreateJobCall(w, user_id, request_id, meta, job_id) ==
    /\ CanCall(w)
    /\ \E t1 \in ClockReads(now) : \E t2 \in ClockReads(t1) :
        /\ now' = t2
        /\ frame' = [frame EXCEPT ![w] =
                        [op |-> "create_job", userId |-> user_id, requestId |-> request_id,
                         item |-> create_job_item(user_id, request_id, meta, job_id, t1, t2)]]
    /\ ncalls' = ncalls + 1
    /\ UNCHANGED <<store, ret, nuuid, createRet, touched, sent, origin, saves, runs, acks, failed,
                   gwVars, auxVars>>

\* The put without its ConditionExpression.
CondPutOutcome_Unconditional(tbl, item, fault) == IF fault THEN "error" ELSE "put"

\* The outcome of the conditional put of create_job and save_itinerary:
\* "put", "exists" (ConditionalCheckFailedException) or "error" (any other
\* ClientError: the table request itself fails, fault).
CondPutOutcome(tbl, item, fault) ==
    IF fault THEN "error"
    ELSE IF AttributeNotExists(tbl, ItemKey(item), "itineraryId") THEN "put"
    ELSE "exists"

\* The table after the conditional put.
CondPut(tbl, item, fault) ==
    IF CondPutOutcome(tbl, item, fault) = "put" THEN PutItem(tbl, item) ELSE tbl

\* create_job without the ConditionalCheckFailedException branch: an existing
\* record makes the call raise.
create_job_result_NoSwallow(outcome) == IF outcome = "put" THEN "returned" ELSE "raised"

\* What create_job does with the outcome of its put, lines 37-43: it returns on
\* "put" and on "exists" and re-raises anything else.
create_job_result(outcome) == IF outcome \in {"put", "exists"} THEN "returned" ELSE "raised"

\* create_job, lines 32-43: the conditional put and the return.
CreateJobPut(w, fault) ==
    /\ frame[w].op = "create_job"
    /\ LET item == frame[w].item
           p == <<frame[w].userId, frame[w].requestId>>
           res == create_job_result(CondPutOutcome(store, item, fault))
       IN  /\ store' = CondPut(store, item, fault)
           /\ createRet' = [createRet EXCEPT ![p][res] = @ + 1]
           /\ touched' = Touch(ItemKey(item), "create_job")
           /\ failed' = Failed(fault, "create_job", res, CondPut(store, item, fault) # store)
           /\ retried' = IF CondPutOutcome(store, item, fault) = "exists"
                         THEN retried \cup {store[ItemKey(item)]}
                         ELSE retried
    /\ frame' = [frame EXCEPT ![w] = Idle]
    /\ UNCHANGED <<now, ret, ncalls, nuuid, sent, origin, saves, runs, acks, gwVars, ui,
                   replies, stamps>>

\* The line cut to the cap, without a mark of the cut.
progress_line_NoMarker(line) == Prefix(Strip(line), LineCap)

\* append_progress, lines 50-54: the line as it will be appended ("" when the
\* call returns without a table request).
progress_line(line) ==
    LET stripped == Strip(line)
    IN  IF Len(stripped) > LineCap THEN SubSeq(stripped, 1, LineCap) \o " ..." ELSE stripped

\* append_progress, lines 50-64: shape the line; an empty one ends the call,
\* any other is stamped and handed to the table request.
AppendProgressCall(w, user_id, request_id, line) ==
    /\ CanCall(w)
    /\ ncalls' = ncalls + 1
    /\ IF progress_line(line) = ""
       THEN UNCHANGED <<now, frame>>
       ELSE \E t1 \in ClockReads(now) : \E t2 \in ClockReads(t1) :
                /\ now' = t2
                /\ frame' = [frame EXCEPT ![w] =
                                [op |-> "append_progress", line |-> line,
                                 key |-> JobKey(user_id, request_id),
                                 entry |-> strftime(t1) \o "  " \o progress_line(line),
                                 t |-> iso_now(t2)]]
    /\ UNCHANGED <<store, ret, nuuid, createRet, touched, sent, origin, saves, runs, acks, failed,
                   gwVars, auxVars>>

\* The list written whole instead of appended to: SET #p = :line.
list_append_Overwrite(a, b) == b

\* list_append(a, b)
list_append(a, b) == a \o b

\* The update expression also setting the status back to RUNNING.
append_progress_sets_TouchStatus(item, entry, t) ==
    [progress |-> list_append(IfNotExists(item, "progress", <<>>), <<entry>>),
     updatedAt |-> t,
     status |-> "RUNNING"]

\* The attributes the update expression of append_progress sets on an item:
\* SET #p = list_append(if_not_exists(#p, :empty), :line), updatedAt = :t
append_progress_sets(item, entry, t) ==
    [progress |-> list_append(IfNotExists(item, "progress", <<>>), <<entry>>),
     updatedAt |-> t]

\* The exception of the table request leaves the call.
best_effort_result_Propagates(fault) == IF fault THEN "raised" ELSE "returned"

\* append_progress, lines 49 and 66-67, complete_job, lines 73 and 91-92: the
\* body is one try whose except Exception logs, so the call returns whether
\* the table request failed (fault) or not.
best_effort_result(fault) == "returned"

\* append_progress, lines 56-67: the update request, which the table applies
\* or fails (fault), and the return.
AppendProgressUpdate(w, fault) ==
    /\ frame[w].op = "append_progress"
    /\ LET k == frame[w].key
       IN  /\ store' = IF fault THEN store
                       ELSE UpdateItemSet(store, k,
                               append_progress_sets(ItemOrNew(store, k), frame[w].entry,
                                                    frame[w].t))
           /\ touched' = Touch(k, "append_progress")
           /\ sent' = IF fault THEN sent ELSE [sent EXCEPT ![w] = Append(@, <<k, frame[w].entry>>)]
           /\ origin' = IF fault THEN origin ELSE [origin EXCEPT ![k] = Append(@, w)]
           /\ failed' = Failed(fault, "append_progress", best_effort_result(fault), FALSE)
    /\ frame' = [frame EXCEPT ![w] = Idle]
    /\ UNCHANGED <<now, ret, ncalls, nuuid, createRet, saves, runs, acks, gwVars, auxVars>>

\* The final message written whole.
complete_job_sets_Uncut(status, final_message, itinerary_id, t) ==
    (IF itinerary_id # "" THEN [resultItineraryId |-> itinerary_id] ELSE <<>>)
    @@ (IF final_message # "" THEN [finalMessage |-> final_message] ELSE <<>>)
    @@ [status |-> status, completedAt |-> t, updatedAt |-> t]

\* The attributes the update expression of complete_job sets, lines 74-82.
complete_job_sets(status, final_message, itinerary_id, t) ==
    (IF itinerary_id # "" THEN [resultItineraryId |-> itinerary_id] ELSE <<>>)
    @@ (IF final_message # "" THEN [finalMessage |-> Prefix(final_message, FinalMessageCap)]
        ELSE <<>>)
    @@ [status |-> status, completedAt |-> t, updatedAt |-> t]

\* complete_job, lines 74-82: build the update expression.
CompleteJobCall(w, user_id, request_id, status, final_message, itinerary_id) ==
    /\ CanCall(w)
    /\ \E t \in ClockReads(now) :
        /\ now' = t
        /\ frame' = [frame EXCEPT ![w] =
                        [op |-> "complete_job",
                         args |-> <<status, final_message, itinerary_id>>,
                         key |-> JobKey(user_id, request_id),
                         sets |-> complete_job_sets(status, final_message, itinerary_id,
                                                    iso_now(t))]]
    /\ ncalls' = ncalls + 1
    /\ UNCHANGED <<store, ret, nuuid, createRet, touched, sent, origin, saves, runs, acks, failed,
                   gwVars, auxVars>>

\* complete_job, lines 84-92: the update request, which the table applies or
\* fails (fault), and the return.
CompleteJobUpdate(w, fault) ==
    /\ frame[w].op = "complete_job"
    /\ store' = IF fault THEN store ELSE UpdateItemSet(store, frame[w].key, frame[w].sets)
    /\ touched' = Touch(frame[w].key, "complete_job")
    /\ failed' = Failed(fault, "complete_job", best_effort_result(fault), FALSE)
    /\ frame' = [frame EXCEPT ![w] = Idle]
    /\ UNCHANGED <<now, ret, ncalls, nuuid, createRet, sent, origin, saves, runs, acks,
                   gwVars, auxVars>>

\* str.startswith
StartsWith(s, pfx) == Len(s) >= Len(pfx) /\ SubSeq(s, 1, Len(pfx)) = pfx

\* JobProgressHandler.emit, line 105: the prefixes of the lines it mirrors.
emit_prefixes == <<"STATUS:", "TOOL:", "TOOL_RESULT:", "Tool #">>

\* JobProgressHandler.emit, line 105: any(msg.startswith(pfx) for pfx in ...)
emit_passes(msg) == \E i \in 1..Len(emit_prefixes) : StartsWith(msg, emit_prefixes[i])

\* JobProgressHandler.emit, lines 103-106, of the handler made for (user_id,
\* request_id), with msg the formatted record: a line with one of the prefixes
\* goes to append_progress, any other is dropped.
Emit(w, user_id, request_id, msg) ==
    IF emit_passes(msg)
    THEN AppendProgressCall(w, user_id, request_id, msg)
    ELSE /\ CanCall(w)
         /\ ncalls' = ncalls + 1
         /\ UNCHANGED <<store, now, frame, ret, nuuid, createRet, touched, sent, origin, saves,
                        runs, acks, failed, gwVars, auxVars>>

\* ---------------------------------------------------------------- ddb_tools.py
\* str(uuid.uuid4()): a value no earlier draw has returned (n draws so far).
uuid4(n) == "uuid4-" \o NumStr(n)

\* str(uuid.uuid5(uuid.NAMESPACE_URL, name)): a fixed function of the name,
\* different names giving different ids.
uuid5(name) == "uuid5(" \o name \o ")"

\* dict.setdefault for each key of dflts: a key the dict has keeps its value.
SetDefaults(d, dflts) == d @@ dflts

\* _ensure_itinerary_shape, lines 11-19, with fresh the uuid4 it draws.
_ensure_itinerary_shape(itinerary, fresh) ==
    SetDefaults(itinerary,
                [itineraryId |-> fresh, destination |-> "", startDate |-> "",
                 endDate |-> "", items |-> <<>>, sources |-> <<>>])

\* _stable_itinerary_id, lines 22-24.
_stable_itinerary_id(user_id, destination, start, end, request_id) ==
    LET base == IF request_id # "" THEN request_id
                ELSE user_id \o "|" \o destination \o "|" \o start \o "|" \o end
    IN  uuid5("agentcore-poc:" \o base)

\* The item save_itinerary puts, lines 32-41.
save_itinerary_item(userId, itinerary, requestId, fresh, t) ==
    LET it == _ensure_itinerary_shape(itinerary, fresh)
        id == IF it.itineraryId # "" THEN it.itineraryId
              ELSE _stable_itinerary_id(userId, it.destination, it.startDate, it.endDate,
                                        requestId)
    IN  [userId |-> userId, itineraryId |-> id, createdAt |-> iso_now(t)] @@ it

\* Every failure of the put taken for the failed condition.
save_itinerary_result_ErrorAsDuplicate(outcome, id) ==
    IF outcome = "put" THEN "saved:" \o id ELSE "duplicate:" \o id

\* What save_itinerary returns for the outcome of its put, lines 44-56.
save_itinerary_result(outcome, id) ==
    IF outcome = "put" THEN "saved:" \o id
    ELSE IF outcome = "exists" THEN "duplicate:" \o id
    ELSE "raised"

\* A call of save_itinerary that has run lines 32-41 and is about to put.
SaveFrame(userId, itinerary, requestId, fresh, t) ==
    [op |-> "save_itinerary", requestId |-> requestId, itinerary |-> itinerary,
     item |-> save_itinerary_item(userId, itinerary, requestId, fresh, t)]

\* save_itinerary, lines 32-43: shape the record and choose its id.
SaveItineraryCall(w, userId, itinerary, requestId) ==
    /\ CanCall(w)
    /\ \E t \in ClockReads(now) :
        /\ now' = t
        /\ frame' = [frame EXCEPT ![w] =
                        SaveFrame(userId, itinerary, requestId, uuid4(nuuid), t)]
    /\ ncalls' = ncalls + 1
    /\ nuuid' = nuuid + 1
    /\ UNCHANGED <<store, ret, createRet, touched, sent, origin, saves, runs, acks, failed,
                   gwVars, auxVars>>

\* save_itinerary, lines 44-56: the conditional put and the return.
SaveItineraryPut(w, fault) ==
    /\ frame[w].op = "save_itinerary"
    /\ LET item == frame[w].item
           res == save_itinerary_result(CondPutOutcome(store, item, fault), item.itineraryId)
       IN  /\ store' = CondPut(store, item, fault)
           /\ ret' = [ret EXCEPT ![w] = res]
           /\ touched' = Touch(ItemKey(item), "save_itinerary")
           /\ saves' = saves \cup {[requestId |-> frame[w].requestId,
                                    itinerary |-> frame[w].itinerary,
                                    item |-> item, result |-> res]}
           /\ failed' = Failed(fault, "save_itinerary", res, CondPut(store, item, fault) # store)
    /\ frame' = [frame EXCEPT ![w] =
                    IF "caller" \in DOMAIN frame[w] THEN frame[w].caller ELSE Idle]
    /\ UNCHANGED <<now, ncalls, nuuid, createRet, sent, origin, runs, acks, gwVars, auxVars>>

\* ---------------------------------------------------------------- entrypoint.py
\* dict.get(key, dflt)
Get(d, key, dflt) == IF key \in DOMAIN d THEN d[key] ELSE dflt

\* The agent run of line 58 calls the save_itinerary tool, with the user and
\* request ids of its context and a record of its own making: with an
\* itineraryId it generated (the prompt's schema asks for a uuid4) or without.
AgentSaveItinerary(w, withId) ==
    /\ frame[w].op = "invoke"
    /\ ncalls < MaxCalls
    /\ \E t \in ClockReads(now) :
        /\ now' = t
        /\ frame' = [frame EXCEPT ![w] =
                        [caller |-> frame[w]]
                        @@ SaveFrame(frame[w].userId,
                                     (IF withId THEN [itineraryId |-> "agent-" \o uuid4(nuuid)]
                                      ELSE <<>>) @@ Trip(frame[w].destination),
                                     frame[w].requestId, uuid4(nuuid + 1), t)]
    /\ ncalls' = ncalls + 1
    /\ nuuid' = nuuid + 2
    /\ UNCHANGED <<store, ret, createRet, touched, sent, origin, saves, runs, acks, failed,
                   gwVars, auxVars>>

\* traceback.format_exc() of the agent's exception.
AgentTraceback == "Traceback (most recent call last): RuntimeError: agent failed"

\* invoke's response, lines 59-73: raised tells whether the agent run raised.
invoke_response(user_id, request_id, raised) ==
    IF raised
    THEN [result |-> "error", error |-> "agent failed",
          trace |-> Prefix(AgentTraceback, TraceCap),
          userId |-> user_id, requestId |-> request_id]
    ELSE [result |-> "ok", userId |-> user_id, requestId |-> request_id,
          message |-> "plan"]

\* invoke, lines 57-73: the agent run ends, by returning or by raising, and
\* invoke returns its response.
InvokeReturn(w, raised) ==
    /\ frame[w].op = "invoke"
    /\ acks' = acks \cup {invoke_response(frame[w].userId, frame[w].requestId, raised)}
    /\ replies' = replies \cup
                    {[payload |-> frame[w].payload,
                      body |-> invoke_response(frame[w].userId, frame[w].requestId, raised)]}
    /\ frame' = [frame EXCEPT ![w] = Idle]
    /\ UNCHANGED <<store, now, ret, ncalls, nuuid, createRet, touched, sent, origin, saves,
                   runs, failed, gwVars, ui, retried, stamps>>

\* ---------------------------------------------------------------- config.py
NoMint == [ok |-> FALSE, t0 |-> 0, T |-> 0, token |-> ""]

\* The cached token is served at every time up to and including its expiry.
token_fresh_Inclusive(c, t) == c.access_token # "" /\ t <= c.exp

\* get_gateway_access_token, line 61: the cache holds a token and the time t is
\* before its expiry.
token_fresh(c, t) == c.access_token # "" /\ t < c.exp

\* get_gateway_access_token, lines 58-63, and _mint_cognito_token, lines 42-43,
\* at time t: the token returned without a request to the token endpoint, if any.
token_lookup(e, c, t) ==
    IF e.static # "" THEN [done |-> TRUE, token |-> e.static]
    ELSE IF token_fresh(c, t) THEN [done |-> TRUE, token |-> c.access_token]
    ELSE IF ~e.cognito THEN [done |-> TRUE, token |-> ""]
    ELSE [done |-> FALSE, token |-> ""]

\* A failed request to the token endpoint empties the cache.
mint_cache_ClearOnFailure(c, reply) ==
    IF reply.kind = "ok"
    THEN [c EXCEPT !.access_token = Get(reply.payload, "access_token", "")]
    ELSE [access_token |-> "", exp |-> 0]

\* _mint_cognito_token, lines 46-53: the cache after the reply. The token of a
\* parsed reply is stored, an absent one as None ("" here); the expiry is
\* written by the next statement.
mint_cache(c, reply) ==
    IF reply.kind = "ok"
    THEN [c EXCEPT !.access_token = Get(reply.payload, "access_token", "")]
    ELSE c

\* _mint_cognito_token, line 54: the cache after the expiry is written, with
\* the clock read at time t.
mint_expiry(c, expires_in, t) == [c EXCEPT !.exp = t + expires_in - SafetyMargin]

\* _mint_cognito_token, lines 46-52: what the call does with a reply it does
\* not store. A transport error or an error status is caught and "" returned;
\* resp.json() on a body that is not JSON raises outside the try.
mint_result(reply) ==
    IF reply.kind \in {"transport", "http_error"} THEN "" ELSE "raised"

\* ---------------------------------------------------------------- agent_builder.py
\* What a call hands to its caller: a value, or an exception.
Ret(value) == [raised |-> FALSE, v |-> value]

Raise(error) == [raised |-> TRUE, v |-> error]

\* The proxy _wrap_mcp_tool returns, lines 53-69: a closure over the tool name.
_wrap_mcp_tool(tool_name) == [tool_name |-> tool_name]

\* discover_gateway_tools, lines 99-111: the proxies of the descriptors, in
\* order. A descriptor whose tool_name is not a string is passed over; one whose
\* wrapping raises (spec "bad") is logged and passed over.
RECURSIVE wrap_tools(_)
wrap_tools(tools) ==
    IF tools = <<>> THEN <<>>
    ELSE LET tool_desc == Head(tools)
         IN  (IF "tool_name" \notin DOMAIN tool_desc THEN <<>>
              ELSE IF tool_desc.spec = "bad" THEN <<>>
              ELSE <<_wrap_mcp_tool(tool_desc.tool_name)>>)
             \o wrap_tools(Tail(tools))

\* A discover_gateway_tools call that has ended.
DiscoverEvent(why, listing, r) ==
    [kind |-> "discover", why |-> why, listing |-> listing, raised |-> r.raised,
     result |-> IF r.raised THEN <<>> ELSE r.v]

\* A proxy invocation that has ended: the client it got ("none", "raised" or
\* "ok"), the token of that client, the calls it made to the gateway, the
\* gateway's reply and what the invocation handed to its invoker.
ProxyEvent(name, client, token, calls, reply, r) ==
    [kind |-> "proxy", name |-> name, client |-> client, token |-> token, calls |-> calls,
     reply |-> reply, raised |-> r.raised, result |-> r.v]

\* The caller of a get_gateway_access_token call made from outside the module.
TokenCaller == [op |-> "token_caller"]

\* Where a worker goes on when the call it made hands r to the caller: the
\* frame it resumes, what its outermost call has returned (out, at most one
\* value) and the calls that have ended on the way (log).
RECURSIVE Resume(_, _)
Resume(caller, r) ==
    IF caller.op = "idle" THEN [frame |-> Idle, out |-> <<>>, log |-> {}]
    ELSE IF caller.op = "token_caller"
    THEN [frame |-> Idle, out |-> <<IF r.raised THEN "raised" ELSE r.v>>, log |-> {}]
    ELSE IF caller.op = "client"
    THEN \* _mcp_client_or_none, lines 34-43: no token, no client (None, "" here);
         \* otherwise a client holding the token.
         Resume(caller.caller, r)
    ELSE IF caller.op = "discover"
    THEN \* discover_gateway_tools, lines 77-83
         IF r.raised \/ r.v = ""
         THEN LET res == IF r.raised THEN r ELSE Ret(<<>>)
                  up == Resume(caller.caller, res)
              IN  [up EXCEPT !.log = @ \cup
                        {DiscoverEvent(IF r.raised THEN "raised" ELSE "no_client", <<>>, res)}]
         ELSE [frame |-> [op |-> "list_tools", token |-> r.v, caller |-> caller.caller],
               out |-> <<>>, log |-> {}]
    ELSE IF caller.op = "proxy"
    THEN \* _gateway_proxy, lines 55-62
         IF r.raised \/ r.v = ""
         THEN LET res == IF r.raised THEN r ELSE Raise("Gateway client unavailable")
                  up == Resume(caller.caller, res)
              IN  [up EXCEPT !.log = @ \cup
                        {ProxyEvent(caller.name, IF r.raised THEN "raised" ELSE "none", "",
                                    <<>>, [kind |-> "none"], res)}]
         ELSE [frame |-> [op |-> "call_tool", name |-> caller.name, token |-> r.v,
                          caller |-> caller.caller],
               out |-> <<>>, log |-> {}]
    ELSE IF caller.op = "agent_for_request"
    THEN \* _agent_for_request, lines 17-23, within invoke, line 55
         IF r.raised
         THEN [frame |-> Idle, out |-> <<>>,
               log |-> {[kind |-> "invoke", raised |-> TRUE, error |-> r.v,
                         userId |-> caller.caller.userId,
                         requestId |-> caller.caller.requestId]}]
         ELSE IF r.v = <<>>
         THEN [frame |-> caller.caller, out |-> <<>>,
               log |-> {[kind |-> "run", userId |-> caller.caller.userId,
                         requestId |-> caller.caller.requestId, call |-> caller.caller.call]}]
         ELSE [frame |-> [op |-> "build_agent", extra_tools |-> r.v, caller |-> caller.caller],
               out |-> <<>>, log |-> {}]
    ELSE \* the agent run of invoke, line 58, goes on after a tool call
         [frame |-> caller, out |-> <<>>, log |-> {}]

\* The worker goes on as next says.
Apply(w, next) ==
    /\ frame' = [frame EXCEPT ![w] = next.frame]
    /\ ret' = [ret EXCEPT ![w] = IF next.out = <<>> THEN @ ELSE next.out[1]]
    /\ done' = done \cup {e \in next.log : e.kind # "run"}
    /\ runs' = runs \cup {<<e.userId, e.requestId, e.call>> :
                            e \in {x \in next.log : x.kind = "run"}}

\* get_gateway_access_token, lines 58-63, up to the request of line 47.
GetToken(w, caller) ==
    LET look == token_lookup(env, cache, epoch)
    IN  /\ IF look.done
           THEN /\ Apply(w, Resume(caller, Ret(look.token)))
                /\ posts' = posts
           ELSE /\ frame' = [frame EXCEPT ![w] =
                                [op |-> "mint", post |-> posts + 1, caller |-> caller]]
                /\ posts' = posts + 1
                /\ UNCHANGED <<ret, done, runs>>
        /\ served' =
            IF env.static = "" /\ lastMint.ok /\ cache.access_token # ""
            THEN served \cup {[at |-> epoch, age |-> epoch - lastMint.t0, T |-> lastMint.T,
                                minted |-> cache.access_token, posted |-> ~look.done,
                                returned |-> look.token]}
            ELSE served

\* A caller of get_gateway_access_token.
GetTokenCall(w) ==
    /\ CanCall(w)
    /\ GetToken(w, TokenCaller)
    /\ ncalls' = ncalls + 1
    /\ UNCHANGED <<store, now, nuuid, createRet, touched, sent, origin, saves, acks,
                   failed, epoch, cache, env, lastMint, mints, auxVars>>

\* The number of the request to the token endpoint that worker w has in flight
\* (0: none).
Post(w) == IF frame[w].op = "mint" THEN frame[w].post ELSE 0

\* _mint_cognito_token, lines 47-53: the token endpoint replies. A reply that
\* parses has its token stored, and the call goes on to line 54; any other
\* ends the call.
MintReply(w, reply) ==
    /\ frame[w].op = "mint"
    /\ cache' = mint_cache(cache, reply)
    /\ IF reply.kind = "ok"
       THEN /\ frame' = [frame EXCEPT ![w] =
                            [op |-> "mint_exp",
                             token |-> Get(reply.payload, "access_token", ""),
                             expires_in |-> Get(reply.payload, "expires_in", DefaultExpiresIn),
                             caller |-> frame[w].caller]]
            /\ UNCHANGED <<ret, done, runs, mints>>
       ELSE /\ mints' = mints \cup {[kind |-> reply.kind, result |-> mint_result(reply),
                                      before |-> cache, after |-> mint_cache(cache, reply)]}
            /\ Apply(w, Resume(frame[w].caller,
                               IF mint_result(reply) = "raised" THEN Raise("ValueError")
                               ELSE Ret(mint_result(reply))))
    /\ UNCHANGED <<store, now, ncalls, nuuid, createRet, touched, sent, origin, saves,
                   acks, failed, epoch, env, posts, lastMint, served, auxVars>>

\* _mint_cognito_token, lines 54-55: the expiry is written from a fresh read of
\* the clock, and the call returns the token the cache holds then.
MintExpiry(w) ==
    /\ frame[w].op = "mint_exp"
    /\ LET after == mint_expiry(cache, frame[w].expires_in, epoch)
       IN  /\ cache' = after
           /\ lastMint' = [ok |-> TRUE, t0 |-> epoch, T |-> frame[w].expires_in,
                           token |-> frame[w].token]
           /\ stamps' = stamps \cup {[token |-> frame[w].token, exp |-> after.exp]}
           /\ mints' = mints \cup {[kind |-> "ok", result |-> after.access_token,
                                     before |-> cache, after |-> after]}
           /\ Apply(w, Resume(frame[w].caller, Ret(after.access_token)))
    /\ UNCHANGED <<store, now, ncalls, nuuid, createRet, touched, sent, origin, saves,
                   acks, failed, epoch, env, posts, served, ui, replies, retried>>

\* _mcp_client_or_none, lines 27-34: without the libraries or the URL there is
\* no client; otherwise the client is made with the token of
\* get_gateway_access_token.
McpClient(w, caller) ==
    IF env.libs /\ env.url
    THEN GetToken(w, [op |-> "client", caller |-> caller])
    ELSE Apply(w, Resume(caller, Ret(""))) /\ UNCHANGED <<posts, served>>

\* A caller of discover_gateway_tools.
DiscoverCall(w) ==
    /\ CanCall(w)
    /\ McpClient(w, [op |-> "discover", caller |-> Idle])
    /\ ncalls' = ncalls + 1
    /\ UNCHANGED <<store, now, nuuid, createRet, touched, sent, origin, saves, acks,
                   failed, epoch, cache, env, lastMint, mints, auxVars>>

\* discover_gateway_tools, lines 82-111: the gateway answers list_tools_sync.
ListReply(w, reply) ==
    /\ frame[w].op = "list_tools"
    /\ LET res == Ret(IF reply.kind = "ok" THEN wrap_tools(reply.tools) ELSE <<>>)
           up == Resume(frame[w].caller, res)
       IN  Apply(w, [up EXCEPT !.log = @ \cup
                        {DiscoverEvent(IF reply.kind = "ok" THEN "listed" ELSE "list_failed",
                                       IF reply.kind = "ok" THEN reply.tools ELSE <<>>, res)}])
    /\ UNCHANGED <<store, now, ncalls, nuuid, createRet, touched, sent, origin, saves,
                   acks, failed, epoch, cache, env, posts, lastMint, served, mints, auxVars>>

\* The failure of the gateway call handed back as the proxy's result.
_gateway_proxy_result_Swallowed(reply) ==
    IF reply.kind = "ok" THEN Ret(reply.result) ELSE Ret("error")

\* _gateway_proxy, lines 60-66: the gateway's result is returned as it is, an
\* exception of the gateway call is logged and raised again.
_gateway_proxy_result(reply) ==
    IF reply.kind = "ok" THEN Ret(reply.result) ELSE Raise("gateway error")

\* The proxies discover_gateway_tools has returned so far.
Discovered ==
    UNION {{e.result[i] : i \in 1..Len(e.result)} : e \in {x \in done : x.kind = "discover"}}

\* An invoker of a discovered proxy.
ProxyCall(w, proxy) ==
    /\ CanCall(w)
    /\ proxy \in Discovered
    /\ McpClient(w, [op |-> "proxy", name |-> proxy.tool_name, caller |-> Idle])
    /\ ncalls' = ncalls + 1
    /\ UNCHANGED <<store, now, nuuid, createRet, touched, sent, origin, saves, acks,
                   failed, epoch, cache, env, lastMint, mints, auxVars>>

\* _gateway_proxy, lines 60-66: the gateway answers call_tool_sync.
ToolReply(w, reply) ==
    /\ frame[w].op = "call_tool"
    /\ LET res == _gateway_proxy_result(reply)
           up == Resume(frame[w].caller, res)
       IN  Apply(w, [up EXCEPT !.log = @ \cup
                        {ProxyEvent(frame[w].name, "ok", frame[w].token,
                                    <<frame[w].name>>, reply, res)}])
    /\ UNCHANGED <<store, now, ncalls, nuuid, createRet, touched, sent, origin, saves,
                   acks, failed, epoch, cache, env, posts, lastMint, served, mints, auxVars>>

\* ---------------------------------------------------------------- entrypoint.py, invoke
\* invoke, lines 34-55: read the payload (the two uuid4 defaults are drawn
\* whether used or not) and pick the agent, which starts with
\* discover_gateway_tools (_agent_for_request, line 17); with the baseline agent
\* picked the run of line 58 starts.
InvokeCall(w, payload) ==
    /\ CanCall(w)
    /\ LET user_id == Get(payload, "userId", "u-" \o uuid4(nuuid))
           request_id == Get(payload, "requestId", uuid4(nuuid + 1))
           locals == [op |-> "invoke", payload |-> payload, userId |-> user_id,
                      requestId |-> request_id,
                      destination |-> Get(payload, "destination", ""), call |-> ncalls,
                      tools |-> <<>>]
       IN  McpClient(w, [op |-> "discover",
                         caller |-> [op |-> "agent_for_request", caller |-> locals]])
    /\ ncalls' = ncalls + 1
    /\ nuuid' = nuuid + 2
    /\ UNCHANGED <<store, now, createRet, touched, sent, origin, saves, acks, failed,
                   epoch, cache, env, lastMint, mints, auxVars>>

\* _agent_for_request, lines 22-26: build_agent(extra_tools) returns the agent
\* with the gateway tools or raises, and then the baseline agent is used; the
\* run of line 58 starts.
BuildAgent(w, raised) ==
    /\ frame[w].op = "build_agent"
    /\ LET locals == frame[w].caller
       IN  /\ frame' = [frame EXCEPT ![w] =
                            [locals EXCEPT !.tools = IF raised THEN <<>> ELSE frame[w].extra_tools]]
           /\ runs' = runs \cup {<<locals.userId, locals.requestId, locals.call>>}
    /\ UNCHANGED <<store, now, ret, ncalls, nuuid, createRet, touched, sent, origin, saves,
                   acks, failed, gwVars, auxVars>>

\* The agent run of line 58 calls one of the agent's gateway tools.
AgentCallProxy(w, i) ==
    /\ frame[w].op = "invoke"
    /\ ncalls < MaxCalls
    /\ i \in 1..Len(frame[w].tools)
    /\ McpClient(w, [op |-> "proxy", name |-> frame[w].tools[i].tool_name,
                     caller |-> frame[w]])
    /\ ncalls' = ncalls + 1
    /\ UNCHANGED <<store, now, nuuid, createRet, touched, sent, origin, saves, acks,
                   failed, epoch, cache, env, lastMint, mints, auxVars>>

\* The wall clock advances.
Wait(d) ==
    /\ epoch + d <= MaxEpoch
    /\ epoch' = epoch + d
    /\ UNCHANGED <<store, now, frame, ret, ncalls, nuuid, createRet, touched, sent, origin,
                   saves, runs, acks, failed, cache, env, posts, lastMint, served, mints, done, auxVars>>

\* ---------------------------------------------------------------- streamlit_app.py
\* main, lines 95-114: the page is drawn and the form not yet submitted.
AtForm == [pc |-> "form"]

\* launch_job's payload, lines 56-68, with the prompt box left empty.
launch_payload(user_id, request_id, destination) ==
    [action |-> "start", userId |-> user_id, requestId |-> request_id,
     prompt |-> "Plan a trip to " \o destination \o " from 2025-12-14 to 2025-12-16. Preferences: ",
     destination |-> destination, startDate |-> "2025-12-14", endDate |-> "2025-12-16",
     preferences |-> ""]

\* poll_status's payload, line 73.
status_payload(user_id, request_id) ==
    [action |-> "status", userId |-> user_id, requestId |-> request_id]

\* main, lines 116-136: the form is submitted. Without a destination the page
\* shows an error and main returns; otherwise launch_job sends the submission,
\* under a request id main draws itself.
Submit(user_id, request_id, destination) ==
    /\ ui.pc = "form"
    /\ ui' = IF destination = "" THEN [pc |-> "invalid"]
             ELSE [pc |-> "launch", request |-> launch_payload(user_id, request_id, destination)]
    /\ UNCHANGED <<store, now, frame, ret, ncalls, nuuid, createRet, touched, sent, origin,
                   saves, runs, acks, failed, gwVars, replies, retried, stamps>>

\* main, line 145: the acknowledgement is one of an accepted job.
accepted(result) == result = "accepted"

\* main, lines 136-153: launch_job returns the acknowledgement ack. A result
\* other than "accepted" shows an error and main returns; otherwise the poll
\* loop starts for the userId and requestId of the acknowledgement (those of
\* the submission when it carries none). What the page has shown so far is kept
\* beside the locals: how often the progress area was drawn (renders) and the
\* statuses the status area has shown (statuses).
Ack(ack) ==
    /\ ui.pc = "launch"
    /\ ui' = IF ~accepted(Get(ack, "result", ""))
             THEN [pc |-> "rejected", request |-> ui.request, ack |-> ack]
             ELSE [pc |-> "poll", request |-> ui.request, ack |-> ack,
                   job_user |-> Get(ack, "userId", ui.request.userId),
                   job_request |-> Get(ack, "requestId", ui.request.requestId),
                   seen |-> 0, rendered |-> <<>>, status |-> "", renders |-> 0,
                   statuses |-> {}]
    /\ UNCHANGED <<store, now, frame, ret, ncalls, nuuid, createRet, touched, sent, origin,
                   saves, runs, acks, failed, gwVars, replies, retried, stamps>>

\* What the runtime can answer a submission with, as _invoke hands it to main:
\* an acknowledgement of an accepted job, with or without the job's ids, the
\* responses of invoke, or a body that is not JSON (_parse_json, line 52).
AckBodies(request) ==
    {[result |-> "accepted", userId |-> request.userId, requestId |-> request.requestId],
     [result |-> "accepted"],
     invoke_response(request.userId, request.requestId, FALSE),
     invoke_response(request.userId, request.requestId, TRUE),
     [_raw |-> "<html>"]}

\* The job view of the status call: the status, progress, finalMessage and
\* resultItineraryId the job record holds; no record, an empty view.
job_view(tbl, user_id, request_id) ==
    LET k == JobKey(user_id, request_id)
    IN  IF k \notin DOMAIN tbl THEN <<>>
        ELSE [a \in DOMAIN tbl[k] \cap {"status", "progress", "finalMessage", "resultItineraryId"}
                |-> tbl[k][a]]

\* What the runtime can answer a status call with, as _invoke hands it to
\* main: the job view, the response of invoke (which carries none), or a body
\* that is not JSON.
StatusBodies(tbl, user_id, request_id) ==
    {[job |-> job_view(tbl, user_id, request_id)],
     invoke_response(user_id, request_id, FALSE),
     [_raw |-> "<html>"]}

\* The loop ends on a read without a status as well.
loop_ends_OnUnknown(status) == status \in {"SUCCEEDED", "FAILED", "?"}

\* main, line 169: the status that ends the poll loop.
loop_ends(status) == status \in {"SUCCEEDED", "FAILED"}

\* Only the new lines are drawn.
rendered_after_NewOnly(progress, seen, rendered) ==
    IF Len(progress) > seen THEN SubSeq(progress, seen + 1, Len(progress)) ELSE rendered

\* main, lines 160-166: the lines the progress area shows after a read. With
\* lines beyond the seen ones (progress[seen:] not empty) the whole list is
\* drawn again; otherwise the area stays as it is.
rendered_after(progress, seen, rendered) ==
    IF Len(progress) > seen THEN progress ELSE rendered

\* main, lines 160-162: the count of seen lines after a read.
seen_after(progress, seen) == IF Len(progress) > seen THEN Len(progress) ELSE seen

\* x or y
Or(x, y) == IF x # "" THEN x ELSE y

\* main, lines 156-187: poll_status returns data; the new lines and the status
\* are drawn, and the loop ends on a final status (the final message and the
\* itinerary id are shown) or sleeps.
PollRead(data) ==
    /\ ui.pc = "poll"
    /\ LET job == Get(data, "job", <<>>)
           progress == Get(job, "progress", <<>>)
           status == Get(job, "status", "?")
           shown == [ui EXCEPT !.seen = seen_after(progress, ui.seen),
                               !.rendered = rendered_after(progress, ui.seen, ui.rendered),
                               !.renders = IF Len(progress) > ui.seen THEN @ + 1 ELSE @,
                               !.status = status,
                               !.statuses = @ \cup {status}]
       IN  ui' = IF loop_ends(status)
                 THEN [pc |-> "done",
                       final_msg |-> Or(Get(job, "finalMessage", ""),
                                        Or(Get(data, "message", ""), "No final message.")),
                       iid |-> Get(job, "resultItineraryId", "")] @@ shown
                 ELSE [shown EXCEPT !.pc = "sleep"]
    /\ UNCHANGED <<store, now, frame, ret, ncalls, nuuid, createRet, touched, sent, origin,
                   saves, runs, acks, failed, gwVars, replies, retried, stamps>>

\* main, lines 156 and 188-189: poll_status raises (the transport fails, the
\* runtime answers with an error status); the page shows the error and the
\* loop is left.
PollRaise ==
    /\ ui.pc = "poll"
    /\ ui' = [ui EXCEPT !.pc = "error"]
    /\ UNCHANGED <<store, now, frame, ret, ncalls, nuuid, createRet, touched, sent, origin,
                   saves, runs, acks, failed, gwVars, replies, retried, stamps>>

\* main, line 187: time.sleep(poll_interval), and the loop goes round. The
\* client reads no clock.
Sleep ==
    /\ ui.pc = "sleep"
    /\ ui' = [ui EXCEPT !.pc = "poll"]
    /\ UNCHANGED <<store, now, frame, ret, ncalls, nuuid, createRet, touched, sent, origin,
                   saves, runs, acks, failed, gwVars, replies, retried, stamps>>

\* ---------------------------------------------------------------- specifications
InitState ==
    /\ store = <<>>
    /\ now = 0
    /\ frame = [w \in Workers |-> Idle]
    /\ ret = [w \in Workers |-> ""]
    /\ ncalls = 0
    /\ nuuid = 0
    /\ createRet = [p \in Pairs |-> [returned |-> 0, raised |-> 0]]
    /\ touched = {}
    /\ sent = [w \in Workers |-> <<>>]
    /\ origin = [k \in JobKeys |-> <<>>]
    /\ saves = {}
    /\ runs = {}
    /\ acks = {}
    /\ failed = {}
    /\ epoch = 0
    /\ cache = [access_token |-> "", exp |-> 0]
    /\ posts = 0
    /\ lastMint = NoMint
    /\ served = {}
    /\ mints = {}
    /\ done = {}
    /\ ui = AtForm
    /\ replies = {}
    /\ retried = {}
    /\ stamps = {}

Init == InitState /\ env = DefaultEnv

\* The job lifecycle manager: callers of create_job, append_progress and
\* complete_job on a table that answers every request.
Next ==
    \/ \E w \in Workers, u \in Owners, r \in RequestIds, a \in CreateArgs :
        CreateJobCall(w, u, r, a[1], a[2])
    \/ \E w \in Workers : CreateJobPut(w, FALSE)
    \/ \E w \in Workers, u \in Owners, r \in RequestIds, l \in Lines :
        AppendProgressCall(w, u, r, l)
    \/ \E w \in Workers : AppendProgressUpdate(w, FALSE)
    \/ \E w \in Workers, u \in Owners, r \in RequestIds, a \in CompleteArgs :
        CompleteJobCall(w, u, r, a[1], a[2], a[3])
    \/ \E w \in Workers : CompleteJobUpdate(w, FALSE)

Spec == Init /\ [][Next]_vars

\* The idempotent record store: callers of save_itinerary and of create_job on
\* the one table.
NextItin ==
    \/ \E w \in Workers, a \in SaveArgs : SaveItineraryCall(w, a[1], a[2], a[3])
    \/ \E w \in Workers : SaveItineraryPut(w, FALSE)
    \/ \E w \in Workers, r \in RequestIds : CreateJobCall(w, "u1", r, NoMeta, "")
    \/ \E w \in Workers : CreateJobPut(w, FALSE)

SpecItin == Init /\ [][NextItin]_vars

\* The runtime entry point: submissions to invoke, whose agent run may call the
\* save_itinerary tool, beside callers of create_job and complete_job.
NextInvoke ==
    \/ \E w \in Workers, p \in Payloads : InvokeCall(w, p)
    \/ \E w \in Workers, withId \in BOOLEAN : AgentSaveItinerary(w, withId)
    \/ \E w \in Workers : SaveItineraryPut(w, FALSE)
    \/ \E w \in Workers, raised \in BOOLEAN : InvokeReturn(w, raised)
    \/ \E w \in Workers, r \in RequestIds : CreateJobCall(w, "u1", r, NoMeta, "")
    \/ \E w \in Workers : CreateJobPut(w, FALSE)
    \/ \E w \in Workers, r \in RequestIds :
        CompleteJobCall(w, "u1", r, "SUCCEEDED", "plan", "")
    \/ \E w \in Workers : CompleteJobUpdate(w, FALSE)

InitInvoke == InitState /\ env = NoGatewayEnv

SpecInvoke == InitInvoke /\ [][NextInvoke]_vars

\* Progress lines of every length: callers of append_progress beside create_job.
NextLines ==
    \/ \E w \in Workers, r \in RequestIds, l \in CapLines : AppendProgressCall(w, "u1", r, l)
    \/ \E w \in Workers : AppendProgressUpdate(w, FALSE)
    \/ \E w \in Workers, r \in RequestIds : CreateJobCall(w, "u1", r, NoMeta, "")
    \/ \E w \in Workers : CreateJobPut(w, FALSE)

SpecLines == Init /\ [][NextLines]_vars

\* The log mirror: a JobProgressHandler attached for ("u1", r) is handed log
\* records while the job exists or not.
NextEmit ==
    \/ \E w \in Workers, r \in RequestIds, msg \in LogLines : Emit(w, "u1", r, msg)
    \/ \E w \in Workers : AppendProgressUpdate(w, FALSE)
    \/ \E w \in Workers, r \in RequestIds : CreateJobCall(w, "u1", r, NoMeta, "")
    \/ \E w \in Workers : CreateJobPut(w, FALSE)

SpecEmit == Init /\ [][NextEmit]_vars

\* Completions with messages of every length: callers of complete_job beside
\* create_job.
NextComplete ==
    \/ \E w \in Workers, r \in RequestIds, a \in CapCompleteArgs :
        CompleteJobCall(w, "u1", r, a[1], a[2], a[3])
    \/ \E w \in Workers : CompleteJobUpdate(w, FALSE)
    \/ \E w \in Workers, r \in RequestIds : CreateJobCall(w, "u1", r, NoMeta, "")
    \/ \E w \in Workers : CreateJobPut(w, FALSE)

SpecComplete == Init /\ [][NextComplete]_vars

\* The handlers on a table that may fail any request: throttled, missing, or
\* unreachable.
NextFault ==
    \/ \E w \in Workers, r \in RequestIds : CreateJobCall(w, "u1", r, NoMeta, "")
    \/ \E w \in Workers, fault \in BOOLEAN : CreateJobPut(w, fault)
    \/ \E w \in Workers, r \in RequestIds, l \in Lines : AppendProgressCall(w, "u1", r, l)
    \/ \E w \in Workers, fault \in BOOLEAN : AppendProgressUpdate(w, fault)
    \/ \E w \in Workers, r \in RequestIds, a \in CompleteArgs :
        CompleteJobCall(w, "u1", r, a[1], a[2], a[3])
    \/ \E w \in Workers, fault \in BOOLEAN : CompleteJobUpdate(w, fault)
    \/ \E w \in Workers, a \in FaultSaveArgs : SaveItineraryCall(w, a[1], a[2], a[3])
    \/ \E w \in Workers, fault \in BOOLEAN : SaveItineraryPut(w, fault)

SpecFault == Init /\ [][NextFault]_vars

\* The credential cache: callers of get_gateway_access_token over time, under
\* each configuration.
InitToken == InitState /\ env \in Envs

NextToken ==
    \/ \E w \in Workers : GetTokenCall(w)
    \/ \E w \in Workers : \E reply \in TokenReplies(Post(w)) : MintReply(w, reply)
    \/ \E w \in Workers : MintExpiry(w)
    \/ \E d \in Waits : Wait(d)

SpecToken == InitToken /\ [][NextToken]_vars

\* The tool proxy layer: callers of discover_gateway_tools and invokers of the
\* proxies it returned, over time, under each configuration.
InitGateway == InitState /\ env \in GatewayEnvs

NextGateway ==
    \/ \E w \in Workers : DiscoverCall(w)
    \/ \E w \in Workers : \E reply \in GatewayTokenReplies(Post(w)) : MintReply(w, reply)
    \/ \E w \in Workers : MintExpiry(w)
    \/ \E w \in Workers, reply \in ListReplies : ListReply(w, reply)
    \/ \E w \in Workers : \E proxy \in Discovered : ProxyCall(w, proxy)
    \/ \E w \in Workers, reply \in ToolReplies : ToolReply(w, reply)
    \/ \E d \in LongWaits : Wait(d)

SpecGateway == InitGateway /\ [][NextGateway]_vars

\* The runtime entry point with its collaborators: submissions to invoke, which
\* picks its agent through the token endpoint and the gateway, under each
\* configuration; the agent run calls gateway tools and ends by returning or
\* by raising. No token expires meanwhile.
NextEntry ==
    \/ \E w \in Workers, p \in Payloads : InvokeCall(w, p)
    \/ \E w \in Workers : \E reply \in GatewayTokenReplies(Post(w)) : MintReply(w, reply)
    \/ \E w \in Workers : MintExpiry(w)
    \/ \E w \in Workers, reply \in ListReplies : ListReply(w, reply)
    \/ \E w \in Workers, raised \in BOOLEAN : BuildAgent(w, raised)
    \/ \E w \in Workers, i \in 1..2 : AgentCallProxy(w, i)
    \/ \E w \in Workers, reply \in ToolReplies : ToolReply(w, reply)
    \/ \E w \in Workers, raised \in BOOLEAN : InvokeReturn(w, raised)

SpecEntry == InitGateway /\ [][NextEntry]_vars

\* The client before the runtime entry point: the form is submitted, the
\* runtime hands the submission to invoke (once or, on a retry of the
\* transport, again) and its response back to the client; status calls arrive
\* as well. The agent run may call the save_itinerary tool.
NextClient ==
    \/ \E d \in {"Kyoto", ""} : Submit("u1", "r1", d)
    \/ \E w \in Workers : ui.pc = "launch" /\ InvokeCall(w, ui.request)
    \/ \E w \in Workers, u \in {"u1"}, r \in RequestIds : InvokeCall(w, status_payload(u, r))
    \/ \E w \in Workers : AgentSaveItinerary(w, FALSE)
    \/ \E w \in Workers : SaveItineraryPut(w, FALSE)
    \/ \E w \in Workers, raised \in BOOLEAN : InvokeReturn(w, raised)
    \/ \E r \in replies : ui.pc = "launch" /\ r.payload = ui.request /\ Ack(r.body)

SpecClient == InitInvoke /\ [][NextClient]_vars

\* The client's steps before a runtime that acknowledges jobs and answers
\* status calls with job views.
ClientNext ==
    \/ Submit("u1", "r1", "Kyoto")
    \/ ui.pc = "launch" /\ \E ack \in AckBodies(ui.request) : Ack(ack)
    \/ ui.pc = "poll" /\ \E data \in StatusBodies(store, ui.job_user, ui.job_request) :
            PollRead(data)
    \/ PollRaise
    \/ Sleep

\* The job's driver: callers of create_job, append_progress and complete_job
\* for the job the client asks about.
DriverNext ==
    \/ \E w \in Workers, r \in RequestIds : CreateJobCall(w, "u1", r, NoMeta, "")
    \/ \E w \in Workers : CreateJobPut(w, FALSE)
    \/ \E w \in Workers, r \in RequestIds, l \in DriverLines :
        AppendProgressCall(w, "u1", r, l)
    \/ \E w \in Workers : AppendProgressUpdate(w, FALSE)
    \/ \E w \in Workers, r \in RequestIds, a \in DriverCompleteArgs :
        CompleteJobCall(w, "u1", r, a[1], a[2], a[3])
    \/ \E w \in Workers : CompleteJobUpdate(w, FALSE)

\* The status-polling contract: the client polls while the job is driven.
NextPoll == ClientNext \/ DriverNext

SpecPoll == Init /\ [][NextPoll]_vars

\* The client runs on: main is one sequential script, each of its steps is
\* taken once it can be. Nothing obliges the driver to go on.
SpecPollFair == SpecPoll /\ WF_vars(ClientNext)

\* ---------------------------------------------------------------- job lifecycle claims
Progress(k) ==
    IF k \in DOMAIN store /\ "progress" \in DOMAIN store[k] THEN store[k].progress ELSE <<>>

\* The records stored for a (userId, requestId) pair as job records.
JobRecords(p) ==
    {k \in DOMAIN store : store[k].userId = p[1] /\ store[k].itineraryId = _job_sk(p[2])}

CreateCalls(p) == createRet[p].returned + createRet[p].raised

\* No handler but create_job has made a table request on the pair's job key.
OnlyCreateJob(p) == \A t \in touched : t[1] = JobKey(p[1], p[2]) => t[2] = "create_job"

\* C1: after one or more create_job calls for a pair, concurrent or not, and no
\* other operation on its key, the table holds exactly one job record for the
\* pair, RUNNING with an empty progress list, and none of the calls raised.
C1_CreateJobIdempotent ==
    \A p \in Pairs :
        (CreateCalls(p) >= 1 /\ OnlyCreateJob(p)) =>
            /\ Cardinality(JobRecords(p)) = 1
            /\ \A k \in JobRecords(p) :
                store[k].status = "RUNNING" /\ store[k].progress = <<>>
            /\ createRet[p].raised = 0

\* Two create_job calls for one pair have returned, the second on an existing record.
C1_Witness ==
    \E p \in Pairs :
        createRet[p].returned >= 2 /\ OnlyCreateJob(p) /\ JobRecords(p) # {}

Terminal == {"SUCCEEDED", "FAILED"}

HasStatus(k) == k \in DOMAIN store /\ "status" \in DOMAIN store[k]

\* C2: a status that is SUCCEEDED or FAILED is never followed by a different status.
C2_TerminalStatusNeverChanges ==
    [][\A k \in JobKeys :
        (HasStatus(k) /\ store[k].status \in Terminal) =>
            store'[k].status = store[k].status]_vars

\* The entries of a job's progress list that the table took from writer w, in list order.
RECURSIVE ByWriter(_, _, _)
ByWriter(k, w, n) ==
    IF n = 0 THEN <<>>
    ELSE ByWriter(k, w, n - 1) \o (IF origin[k][n] = w THEN <<Progress(k)[n]>> ELSE <<>>)

\* The entries writer w appended to key k, in the order of its calls.
SentTo(w, k) ==
    LET s == SelectSeq(sent[w], LAMBDA e : e[1] = k)
    IN  [i \in 1..Len(s) |-> s[i][2]]

\* C3: after N append_progress requests that reached the table, in any
\* interleaving, the progress list has exactly N entries, one per call, and the
\* entries of each writer are in that writer's call order.
C3_AppendsAllKeptInOrder ==
    \A k \in JobKeys :
        /\ Len(Progress(k)) = Len(origin[k])
        /\ \A w \in Workers : ByWriter(k, w, Len(origin[k])) = SentTo(w, k)

\* Three appends on one job by two writers.
C3_Witness ==
    \E k \in JobKeys :
        /\ Len(origin[k]) >= 3
        /\ {origin[k][i] : i \in 1..Len(origin[k])} = Workers
        /\ Len(Progress(k)) = 3

States == {"RUNNING", "SUCCEEDED", "FAILED"}

\* C9: every job record has a status, one of RUNNING, SUCCEEDED, FAILED.
C9_StatusAlwaysValid ==
    \A p \in Pairs : \A k \in JobRecords(p) :
        "status" \in DOMAIN store[k] /\ store[k].status \in States

\* C10: a job record exists for a pair only if a create_job call for the pair
\* has succeeded.
C10_RecordOnlyIfCreated ==
    \A p \in Pairs : JobRecords(p) # {} => createRet[p].returned >= 1

\* ---------------------------------------------------------------- itinerary claims
\* The candidate record carries an itineraryId of the client's.
Supplied(s) == "itineraryId" \in DOMAIN s.itinerary /\ s.itinerary.itineraryId # ""

Saved(s) == s.result = "saved:" \o s.item.itineraryId

Duplicate(s) == s.result = "duplicate:" \o s.item.itineraryId

TripOf(s) == <<s.item.destination, s.item.startDate, s.item.endDate>>

\* C5: two save_itinerary calls with the same (userId, requestId), requestId
\* non-empty and no itineraryId of the client's, compute the same id: one
\* returns saved:<id>, the other duplicate:<id>, and one record exists.
C5_SameRequestSameItinerary ==
    \A a, b \in saves :
        (/\ a.item.userId = b.item.userId
         /\ a.requestId = b.requestId
         /\ a.requestId # ""
         /\ ~Supplied(a) /\ ~Supplied(b)) =>
            /\ a.item.itineraryId = b.item.itineraryId
            /\ Saved(a) \/ Duplicate(a)
            /\ a # b => ~(Saved(a) /\ Saved(b))

\* C6: a save_itinerary call leaves every stored record as it was, and returns
\* duplicate:<id> when a record is stored under its id.
C6_StoredItineraryNeverOverwritten ==
    [][\A w \in Workers :
        (frame[w].op = "save_itinerary" /\ frame'[w].op # "save_itinerary") =>
            /\ \A k \in DOMAIN store : k \in DOMAIN store' /\ store'[k] = store[k]
            /\ ItemKey(frame[w].item) \in DOMAIN store =>
                ret'[w] = "duplicate:" \o frame[w].item.itineraryId]_vars

\* A call whose record differs from the stored one has returned duplicate:<id>.
C6_Witness ==
    \E s \in saves :
        /\ Duplicate(s)
        /\ ItemKey(s.item) \in DOMAIN store
        /\ "destination" \in DOMAIN store[ItemKey(s.item)]
        /\ store[ItemKey(s.item)].destination # s.item.destination

\* C7: the record id is the client's itineraryId when the candidate carries
\* one; otherwise a function of (userId, requestId) when requestId is
\* non-empty; otherwise a function of (userId, destination, startDate, endDate).
C7_ItineraryIdRule ==
    /\ \A s \in saves : Supplied(s) => s.item.itineraryId = s.itinerary.itineraryId
    /\ \A a, b \in saves :
        (/\ ~Supplied(a) /\ ~Supplied(b)
         /\ a.item.userId = b.item.userId
         /\ a.requestId = b.requestId
         /\ a.requestId = "" => TripOf(a) = TripOf(b)) =>
            a.item.itineraryId = b.item.itineraryId

\* ---------------------------------------------------------------- submission claims
\* The (userId, requestId) pairs that submissions carry.
SubmittedPairs ==
    {<<p.userId, p.requestId>> : p \in {q \in Payloads : "requestId" \in DOMAIN q}}

RunsOf(p) == {x \in runs : x[1] = p[1] /\ x[2] = p[2]}

\* The itinerary records written for a request.
ItineraryRecordsOf(p) ==
    {ItemKey(s.item) : s \in {x \in saves : x.item.userId = p[1] /\ x.requestId = p[2]
                                             /\ Saved(x)}}

\* C4: submissions carrying one (userId, requestId) run the agent at most once
\* and leave at most one job record and at most one itinerary record.
C4_SubmissionEffectsAtMostOnce ==
    \A p \in SubmittedPairs :
        /\ Cardinality(RunsOf(p)) <= 1
        /\ Cardinality(JobRecords(p)) <= 1
        /\ Cardinality(ItineraryRecordsOf(p)) <= 1

\* C8: once invoke has returned for a submission, the job record of its
\* (userId, requestId) exists and is SUCCEEDED or FAILED.
C8_SubmittedJobReachesTerminal ==
    \A a \in acks :
        /\ HasStatus(JobKey(a.userId, a.requestId))
        /\ store[JobKey(a.userId, a.requestId)].status \in Terminal

\* ---------------------------------------------------------------- credential cache claims
\* C11, as the code has it: with no static token configured, once a mint has
\* written the cache's expiry at time t0 from expires_in = T, and while the
\* cache holds a token, every get_gateway_access_token call at a time t with
\* t - t0 < T - 30 returns the token the cache holds without a request to the
\* token endpoint, and every call at a time t with t - t0 >= T - 30 makes
\* exactly one request to the token endpoint.
C11_CachedBeforeExpiry ==
    \A s \in served :
        IF s.age < s.T - SafetyMargin
        THEN ~s.posted /\ s.returned = s.minted
        ELSE s.posted

\* C11: with no static token configured, after a mint at time t0 with
\* expires_in = T, every call at a time t with t - t0 <= T - 30 returns the cached
\* token without a request to the token endpoint, and a call at a time t with
\* t - t0 >= T - 30 + 1 makes exactly one request.
C11_CachedThroughExpiry ==
    \A s \in served :
        /\ s.age <= s.T - SafetyMargin => ~s.posted /\ s.returned = s.minted
        /\ s.age >= s.T - SafetyMargin + 1 => s.posted

\* One call a second before the expiry was served from the cache, one at the
\* expiry went to the token endpoint.
C11_Witness ==
    /\ \E s \in served : s.age = s.T - SafetyMargin - 1 /\ ~s.posted /\ s.returned = s.minted
    /\ \E s \in served : s.age = s.T - SafetyMargin /\ s.posted

FailureKinds == {"transport", "http_error"}

\* C12: when the request to the token endpoint fails (transport error or error
\* status), the call returns an empty token, does not raise, and leaves the
\* cache entry as it was.
C12_FailedMintKeepsCache ==
    \A m \in mints :
        m.kind \in FailureKinds => m.result = "" /\ m.after = m.before

\* A request to the token endpoint failed while the cache held a token.
C12_Witness ==
    \E m \in mints : m.kind \in FailureKinds /\ m.before.access_token # ""

\* ---------------------------------------------------------------- tool proxy claims
Discoveries == {e \in done : e.kind = "discover"}

\* The descriptor has a string name and wraps.
Wrappable(tool_desc) == "tool_name" \in DOMAIN tool_desc /\ tool_desc.spec = "ok"

\* One proxy for each wrappable descriptor, in descriptor order.
ExpectedProxies(listing) ==
    LET ok == SelectSeq(listing, Wrappable)
    IN  [i \in 1..Len(ok) |-> [tool_name |-> ok[i].tool_name]]

\* The results of discover_gateway_tools calls that returned are as C13 says:
\* empty without a client, without a credential or when listing failed,
\* otherwise the proxies of the wrappable descriptors in order.
DiscoverResults ==
    \A e \in Discoveries :
        ~e.raised =>
            IF e.why = "listed" THEN e.result = ExpectedProxies(e.listing) ELSE e.result = <<>>

\* C13: discover_gateway_tools never raises; it returns the empty sequence when
\* the libraries or the URL are missing, when no credential can be obtained or
\* when listing fails, and otherwise one proxy for each descriptor with a string
\* name that wraps, in descriptor order, a descriptor that fails to wrap being
\* skipped.
C13_DiscoverNeverRaises ==
    /\ \A e \in Discoveries : ~e.raised
    /\ DiscoverResults

Invocations == {e \in done : e.kind = "proxy"}

\* The credential get_gateway_access_token hands out now.
CurrentToken == IF env.static # "" THEN env.static ELSE cache.access_token

\* What every ended proxy invocation did: with a client, one call to the
\* gateway, for its tool, whose result it returned as it was and whose failure
\* it raised; without one, no call to the gateway and an error raised, the
\* 'Gateway client unavailable' one when _mcp_client_or_none gave no client.
InvocationResults ==
    \A e \in Invocations :
        IF e.client = "ok"
        THEN /\ e.calls = <<e.name>>
             /\ IF e.reply.kind = "ok"
                THEN ~e.raised /\ e.result = e.reply.result
                ELSE e.raised
        ELSE /\ e.calls = <<>>
             /\ e.raised
             /\ e.client = "none" => e.result = "Gateway client unavailable"

FailedIn(ops) == {f \in failed : f.op \in ops}

\* C15: append_progress and complete_job never raise: whatever the arguments
\* and whenever the store update fails, the call returns normally.
C15_BestEffortNeverRaises ==
    \A f \in FailedIn({"append_progress", "complete_job"}) : f.result = "returned"

\* The table has failed an append and a completion.
C15_Witness ==
    /\ FailedIn({"append_progress"}) # {}
    /\ FailedIn({"complete_job"}) # {}

\* C16: when the conditional put fails for a reason other than the record
\* existing, create_job and save_itinerary raise (neither success nor duplicate
\* is reported) and the call creates no record.
C16_PutFailurePropagates ==
    \A f \in FailedIn({"create_job", "save_itinerary"}) : f.result = "raised" /\ ~f.wrote

\* The table has failed a put of create_job and one of save_itinerary.
C16_Witness ==
    /\ FailedIn({"create_job"}) # {}
    /\ FailedIn({"save_itinerary"}) # {}

\* ---------------------------------------------------------------- entry point claims
\* C17: whatever the payload and whichever collaborator fails during the call
\* (token mint, gateway discovery, agent construction, agent run), invoke
\* returns a response and never raises; a failure yields result "error" with
\* error, trace, userId and requestId, the trace cut to a bounded length.
C17_InvokeNeverRaises ==
    /\ \A e \in done : e.kind = "invoke" => ~e.raised
    /\ \A a \in acks :
        a.result = "error" =>
            /\ DOMAIN a = {"result", "error", "trace", "userId", "requestId"}
            /\ Len(a.trace) <= TraceCap

\* ---------------------------------------------------------------- progress line claims
TruncationMarker == " ..."

\* The line C18 says is stored for an input line with something in it.
StoredLine(line) ==
    LET stripped == Strip(line)
    IN  IF Len(stripped) <= LineCap THEN stripped
        ELSE SubSeq(stripped, 1, LineCap) \o TruncationMarker

\* A progress entry without its time stamp ("HH:MM:SS" and two spaces).
EntryText(entry) == SubSeq(entry, 11, Len(entry))

\* C18: append_progress strips the line; an empty or whitespace-only line (or
\* None) causes no store write; a line longer than 600 characters after
\* stripping is stored as its first 600 characters and a truncation marker; a
\* line of at most 600 characters is stored whole.
C18_LineStrippedAndCapped ==
    /\ [](\A w \in Workers : frame[w].op = "append_progress" => Strip(frame[w].line) # "")
    /\ [][\A w \in Workers :
            (frame[w].op = "append_progress" /\ frame'[w].op = "idle") =>
                LET k == frame[w].key
                    n == Len(Progress(k))
                IN  /\ Len(store'[k].progress) = n + 1
                    /\ SubSeq(store'[k].progress, 1, n) = Progress(k)
                    /\ EntryText(store'[k].progress[n + 1]) = StoredLine(frame[w].line)]_vars

Texts(k) == {EntryText(Progress(k)[i]) : i \in 1..Len(Progress(k))}

\* A job's progress holds a line of 600 characters stored whole and a line of
\* 601 stored as 600 and the marker, after a call with a blank line that made
\* no request (three calls, two requests).
C18_Witness ==
    \E k \in JobKeys :
        /\ \E t \in Texts(k) : Len(t) = LineCap
        /\ \E t \in Texts(k) : Len(t) = LineCap + Len(TruncationMarker)
        /\ ncalls = 3 /\ Cardinality(touched) <= 1 /\ Len(Progress(k)) = 2

\* The prefixes of the lines meant for the end user.
ProtocolPrefixes == {"STATUS:", "TOOL:", "TOOL_RESULT:"}

HasProtocolPrefix(line) == \E pfx \in ProtocolPrefixes : StartsWith(line, pfx)

\* C19: JobProgressHandler passes a line to append_progress only if it starts
\* with STATUS:, TOOL: or TOOL_RESULT:; a line with any other prefix causes no
\* progress append.
C19_OnlyProtocolLinesMirrored ==
    /\ \A w \in Workers : frame[w].op = "append_progress" => HasProtocolPrefix(frame[w].line)
    /\ \A k \in JobKeys : \A t \in Texts(k) : HasProtocolPrefix(t)

\* ---------------------------------------------------------------- completion claims
\* The attribute is in both items with one value, or in neither.
SameAttribute(old, new, attr) ==
    /\ attr \in DOMAIN new <=> attr \in DOMAIN old
    /\ attr \in DOMAIN old => new[attr] = old[attr]

\* The message cut to at most the cap.
CutMessage(m) == IF Len(m) <= FinalMessageCap THEN m ELSE SubSeq(m, 1, FinalMessageCap)

\* C20: a complete_job call that reaches the store sets status to the given
\* status and completedAt and updatedAt to one timestamp; it writes finalMessage
\* only when a message is given, cut to at most 180,000 characters, and
\* resultItineraryId only when a result id is given; an attribute not given is
\* left as it was.
C20_CompletionWrites ==
    [][\A w \in Workers :
        (frame[w].op = "complete_job" /\ frame'[w].op = "idle") =>
            LET k == frame[w].key
                old == IF k \in DOMAIN store THEN store[k] ELSE <<>>
                new == store'[k]
                given == frame[w].args
            IN  /\ new.status = given[1]
                /\ new.completedAt = new.updatedAt
                /\ IF given[2] # ""
                   THEN new.finalMessage = CutMessage(given[2])
                   ELSE SameAttribute(old, new, "finalMessage")
                /\ IF given[3] # ""
                   THEN new.resultItineraryId = given[3]
                   ELSE SameAttribute(old, new, "resultItineraryId")]_vars

\* A job completed with a message over the cap and a result id, then again with
\* neither: the status is the second call's, the message (cut) and the id are
\* the first call's.
C20_Witness ==
    \E k \in JobKeys :
        /\ HasStatus(k) /\ store[k].status = "FAILED"
        /\ "finalMessage" \in DOMAIN store[k] /\ Len(store[k].finalMessage) = FinalMessageCap
        /\ "resultItineraryId" \in DOMAIN store[k] /\ store[k].resultItineraryId = "i1"


\* ---------------------------------------------------------------- client claims
\* The frame belongs to a call of invoke with a status payload, or to a tool
\* call of its agent run.
InStatusCall(f) ==
    \/ "payload" \in DOMAIN f /\ Get(f.payload, "action", "") = "status"
    \/ /\ "caller" \in DOMAIN f
       /\ "payload" \in DOMAIN f.caller
       /\ Get(f.caller.payload, "action", "") = "status"

\* C21: a status call is answered with a job view, and handling it neither runs
\* the agent nor writes a record.
C21_StatusCallOnlyReads ==
    /\ [](\A r \in replies :
            Get(r.payload, "action", "") = "status" => "job" \in DOMAIN r.body)
    /\ [][\A w \in Workers :
            (frame'[w] # frame[w] /\ (InStatusCall(frame[w]) \/ InStatusCall(frame'[w]))) =>
                runs' = runs /\ store' = store]_vars

\* The client has gone past the acknowledgement of its submission.
Acknowledged == "ack" \in DOMAIN ui

\* C22: when invoke has answered the client's submission with its success
\* result, the client takes the job as submitted and starts the poll loop for
\* the userId and requestId of the acknowledgement.
C22_SuccessStartsPolling ==
    (Acknowledged
     /\ ui.ack = invoke_response(ui.request.userId, ui.request.requestId, FALSE)) =>
        /\ ui.pc \in {"poll", "sleep", "done", "error"}
        /\ ui.job_user = ui.ack.userId
        /\ ui.job_request = ui.ack.requestId

\* The poll loop has started.
Polling == "seen" \in DOMAIN ui

\* C23: once started, the poll loop reads the status, sleeps one interval and
\* reads again; a read showing SUCCEEDED or FAILED ends it, any other read,
\* one showing no job record among them, makes it sleep and go on with no error
\* shown; once ended it reads no more.
C23_PollUntilTerminal ==
    /\ [][(ui.pc = "poll" /\ ui'.pc \notin {"poll", "error"}) =>
            IF ui'.status \in Terminal THEN ui'.pc = "done" ELSE ui'.pc = "sleep"]_vars
    /\ [][ui.pc = "sleep" /\ ui' # ui => ui' = [ui EXCEPT !.pc = "poll"]]_vars
    /\ [][ui.pc = "done" => ui' = ui]_vars

\* The loop has ended on a final status after reads that showed no status and
\* a RUNNING one.
C23_Witness ==
    /\ ui.pc = "done"
    /\ ui.status \in Terminal
    /\ {"?", "RUNNING"} \subseteq ui.statuses

\* C24: a poll loop that has started ends, whatever the reads show.
C24_PollLoopTerminates == (ui.pc = "poll") ~> (ui.pc \in {"done", "error"})

IsPrefix(a, b) == Len(a) <= Len(b) /\ SubSeq(b, 1, Len(a)) = a

\* C26: the lines the client shows are a prefix of the stored progress list of
\* its job, every redraw extends what was shown, and the count of seen lines
\* never decreases.
C26_RenderedIsPrefix ==
    /\ [](Polling => IsPrefix(ui.rendered, Progress(JobKey(ui.job_user, ui.job_request))))
    /\ [][(Polling /\ ui' # ui) =>
            IsPrefix(ui.rendered, ui'.rendered) /\ ui'.seen >= ui.seen]_vars

\* The progress area was drawn twice, and a third line is stored that no read
\* has shown yet.
C26_Witness ==
    /\ Polling
    /\ ui.renders >= 2
    /\ Len(ui.rendered) = 2
    /\ Len(Progress(JobKey(ui.job_user, ui.job_request))) = 3

\* ---------------------------------------------------------------- cache race claims
\* No mint is between its two writes to the cache.
NoMintWriting == \A w \in Workers : frame[w].op # "mint_exp"

\* The cache entries that come from one reply of the token endpoint.
WholeEntries == {[access_token |-> st.token, exp |-> st.exp] : st \in stamps}

\* No token is served from the cache later than the expiry, less the margin,
\* that its own mint computed.
ServedWithinOwnExpiry ==
    \A s \in served : \A st \in stamps :
        (~s.posted /\ st.token = s.returned) => s.at <= st.exp

\* C25: whenever callers race to refresh the cache, the entry they leave holds
\* the token and the expiry of one reply of the token endpoint, so that no
\* token is served from the cache later than the expiry, less the 30 s margin,
\* that the endpoint returned for it.
C25_CacheEntryFromOneMint ==
    /\ (NoMintWriting /\ stamps # {}) => cache \in WholeEntries
    /\ ServedWithinOwnExpiry

\* ---------------------------------------------------------------- frame claims
\* C27: a create_job call for a pair whose job record exists leaves the record
\* as it is, status, progress, startedAt, finalMessage and meta included.
C27_RetriedCreateKeepsRecord ==
    [][\A w \in Workers :
        (/\ frame[w].op = "create_job"
         /\ frame'[w].op # "create_job"
         /\ ItemKey(frame[w].item) \in DOMAIN store) =>
            store' = store]_vars

\* A create_job call has met a finished job that had progress lines.
C27_Witness ==
    \E item \in retried :
        /\ "status" \in DOMAIN item /\ item.status \in Terminal
        /\ "progress" \in DOMAIN item /\ item.progress # <<>>
        /\ ItemKey(item) \in DOMAIN store /\ store[ItemKey(item)] = item

\* The record at a key, or the empty record where the table holds none.
RecordAt(tbl, k) == IF k \in DOMAIN tbl THEN tbl[k] ELSE <<>>

\* The attributes of the two items other than the key and the named ones.
OtherAttributes(old, new, named) ==
    ((DOMAIN old) \cup (DOMAIN new)) \ ({"userId", "itineraryId"} \cup named)

\* C28: an append_progress update changes only progress and updatedAt of the
\* record: status, completedAt, finalMessage and resultItineraryId are as
\* before; a complete_job update leaves the progress list as it was.
C28_AppendAndCompleteFrames ==
    [][\A w \in Workers :
        /\ (frame[w].op = "append_progress" /\ frame'[w].op = "idle") =>
                LET old == RecordAt(store, frame[w].key)
                    new == RecordAt(store', frame[w].key)
                IN  \A attr \in OtherAttributes(old, new, {"progress", "updatedAt"}) \cup
                                {"status", "completedAt", "finalMessage", "resultItineraryId"} :
                        SameAttribute(old, new, attr)
        /\ (frame[w].op = "complete_job" /\ frame'[w].op = "idle") =>
                SameAttribute(RecordAt(store, frame[w].key), RecordAt(store', frame[w].key),
                              "progress")]_vars

\* A job that was appended to and completed holds its lines and a final status.
C28_Witness ==
    \E k \in JobKeys :
        /\ <<k, "append_progress">> \in touched /\ <<k, "complete_job">> \in touched
        /\ <<k, "create_job">> \in touched
        /\ k \in DOMAIN store
        /\ store[k].status \in Terminal /\ Len(store[k].progress) >= 1
        /\ "finalMessage" \in DOMAIN store[k]

\* C29: the finalMessage and resultItineraryId of a record are those given by
\* the complete_job call that wrote its status: after a complete_job update the
\* record holds that call's message and result id, and none the call did not give.
C29_FinalFieldsOfStatusWriter ==
    [][\A w \in Workers :
        (frame[w].op = "complete_job" /\ frame'[w].op = "idle") =>
            LET new == RecordAt(store', frame[w].key)
                given == frame[w].args
            IN  /\ new.status = given[1]
                /\ IF given[2] # ""
                   THEN "finalMessage" \in DOMAIN new /\ new.finalMessage = CutMessage(given[2])
                   ELSE "finalMessage" \notin DOMAIN new
                /\ IF given[3] # ""
                   THEN "resultItineraryId" \in DOMAIN new /\ new.resultItineraryId = given[3]
                   ELSE "resultItineraryId" \notin DOMAIN new]_vars

\* No append_progress or complete_job request has been made on the pair's job key.
NoJobUpdate(p) ==
    \A t \in touched :
        t[1] = JobKey(p[1], p[2]) => t[2] \notin {"append_progress", "complete_job"}

\* C30: job records and itinerary records never share a key: no save_itinerary
\* call writes a record at a key job#<requestId>, and once create_job has
\* returned for a pair that has had no other job operation the key holds a job
\* record with status RUNNING.
C30_JobAndItineraryKeysApart ==
    /\ \A s \in saves : Saved(s) => ~StartsWith(s.item.itineraryId, JOB_SK_PREFIX)
    /\ \A p \in Pairs :
        (createRet[p].returned >= 1 /\ NoJobUpdate(p)) =>
            /\ HasStatus(JobKey(p[1], p[2]))
            /\ store[JobKey(p[1], p[2])].status = "RUNNING"

====
